---- MODULE Spec2Model ----
(***************************************************************************)
(* A model of rss_telegram.py: the poll loop of main_async, the diff of    *)
(* check_feeds against the history file, the AniList image cache, and the  *)
(* two notification formatters with the Telegram send primitives.          *)
(*                                                                         *)
(* A Python str is a sequence of one-character strings.  The two non-ASCII *)
(* characters of the source's literals are named by their code points:     *)
(* "U+1F4E2" (the megaphone) and "U+2022" (the bullet) are one character   *)
(* each.  Python's None is <<"None">>, which is no str since "None" is no   *)
(* character.                                                              *)
(***************************************************************************)
EXTENDS Naturals, Sequences, FiniteSets, TLC

VARIABLES
    \* the environment variables read at lines 24-32
    TELEGRAM_BOT_TOKEN, TELEGRAM_CHAT_ID, TELEGRAM_FORUM_ID,
    TELEGRAM_GROUPED_MESSAGES, TELEGRAM_MESSAGE_LINKS_BUTTON,
    INCLUDE_DESCRIPTION, DISABLE_NOTIFICATION,
    \* the files HISTORY_FILE and IMAGE_CACHE_FILE
    history_file, image_cache_file,
    \* main_async and check_feeds: the place in the code and the locals
    pc, sent_items, feeds, feed_index, messages_by_feed,
    \* the call of the startup announcement, kept until check_feeds is entered
    announcement,
    \* the calls made on the Telegram bot and the asyncio sleeps of the cycle
    \* in progress, in order
    outbox,
    \* what feedparser.parse did in the latest turn of the loop over the feeds
    last_fetch,
    \* the <<feed URL, identifier>> pairs of the entries the cycle in progress
    \* fetched whose identifier was not in sent_items when they were fetched
    fetched,
    \* the <<feed URL, identifier>> pairs appended to messages_by_feed in
    \* the cycle in progress, and in the cycles before it
    handed, handed_before,
    \* the <<feed URL, identifier>> pairs that were handed to the formatter in a
    \* cycle that stopped before save_sent_items, and that no cycle ended since
    \* has saved
    lost,
    \* the number of save_sent_items calls of the cycle in progress
    saves,
    \* the calls of get_anime_image_from_anilist that are made one by one, in
    \* order: the title, the cache key, whether AniList was asked and what it
    \* replied, and the result
    lookups

None == <<"None">>

----------------------------------------------------------------------------
(* Characters *)

IsSpace(c) == c \in {" ", "\t", "\n", "\r", "\f"}

IsDigit(c) == c \in {"0", "1", "2", "3", "4", "5", "6", "7", "8", "9"}

UpperCase == <<"A","B","C","D","E","F","G","H","I","J","K","L","M",
               "N","O","P","Q","R","S","T","U","V","W","X","Y","Z">>

LowerCase == <<"a","b","c","d","e","f","g","h","i","j","k","l","m",
               "n","o","p","q","r","s","t","u","v","w","x","y","z">>

Lower(c) ==
    IF \E i \in 1..26 : UpperCase[i] = c
    THEN LowerCase[CHOOSE i \in 1..26 : UpperCase[i] = c]
    ELSE c

\* s[a..b] as Python slices it: empty when a > b
Slice(s, a, b) == IF a > b THEN <<>> ELSE SubSeq(s, a, b)

\* the least element of a non-empty set of numbers
Min(S) == CHOOSE i \in S : \A k \in S : i <= k

\* the number of whitespace characters that end s[1..n]
SpacesBefore(s, n) ==
    n - Min({m \in 0..n : \A k \in (m + 1)..n : IsSpace(s[k])})

\* t matches \s*\d+\s* in full
IsSpacesDigitsSpaces(t) ==
    \E a \in 0..Len(t) : \E b \in (a + 1)..Len(t) :
        /\ \A k \in 1..a : IsSpace(t[k])
        /\ \A k \in (a + 1)..b : IsDigit(t[k])
        /\ \A k \in (b + 1)..Len(t) : IsSpace(t[k])

\* t matches \s*\d+ followed by the end of the string, which $ also finds
\* just before one final newline
IsSpacesDigitsEnd(t) ==
    \E a \in 0..Len(t) : \E b \in (a + 1)..Len(t) :
        /\ \A k \in 1..a : IsSpace(t[k])
        /\ \A k \in (a + 1)..b : IsDigit(t[k])
        /\ \/ b = Len(t)
           \/ b = Len(t) - 1 /\ t[Len(t)] = "\n"

----------------------------------------------------------------------------
(* clean_title *)

\* re.sub(open .*? close, '', s): the leftmost opening character that has a
\* closing character after it on its line is removed with everything up to the
\* nearest one, and so on in the rest
RECURSIVE RemoveDelimited(_, _, _)
RemoveDelimited(s, open, close) ==
    LET Ends(i) == {j \in (i + 1)..Len(s) :
                        s[j] = close /\ \A k \in (i + 1)..(j - 1) : s[k] # "\n"}
        starts == {i \in 1..Len(s) : s[i] = open /\ Ends(i) # {}}
    IN  IF starts = {} THEN s
        ELSE LET i == Min(starts)
             IN  Slice(s, 1, i - 1)
                     \o RemoveDelimited(Slice(s, Min(Ends(i)) + 1, Len(s)), open, close)

\* re.sub(r'\s*-\s*\d+\s*$', '', s)
StripDashNumber(s) ==
    IF \E d \in 1..Len(s) :
           s[d] = "-" /\ IsSpacesDigitsSpaces(Slice(s, d + 1, Len(s)))
    THEN LET d == CHOOSE d \in 1..Len(s) :
                      s[d] = "-" /\ IsSpacesDigitsSpaces(Slice(s, d + 1, Len(s)))
         IN  Slice(s, 1, d - 1 - SpacesBefore(s, d - 1))
    ELSE s

EpisodeWord == <<"e", "p", "i", "s", "o", "d", "e">>

\* re.sub(r'\s*Episode\s*\d+$', '', s, flags=re.IGNORECASE)
StripEpisode(s) ==
    LET AtWord(p) ==
            /\ p + 6 <= Len(s)
            /\ \A k \in 1..7 : Lower(s[p + k - 1]) = EpisodeWord[k]
            /\ IsSpacesDigitsEnd(Slice(s, p + 7, Len(s)))
    IN  IF \E p \in 1..Len(s) : AtWord(p)
        THEN LET p == CHOOSE p \in 1..Len(s) : AtWord(p)
                 kept == Slice(s, 1, p - 1 - SpacesBefore(s, p - 1))
             IN  IF IsDigit(s[Len(s)]) THEN kept ELSE kept \o <<"\n">>
        ELSE s

\* str.split(): the maximal runs of non-whitespace characters
RECURSIVE Split(_)
Split(s) ==
    LET words == {i \in 1..Len(s) : ~IsSpace(s[i])}
    IN  IF words = {} THEN <<>>
        ELSE LET a == Min(words)
                 b == Min({j \in a..Len(s) : j = Len(s) \/ IsSpace(s[j + 1])})
             IN  <<SubSeq(s, a, b)>> \o Split(Slice(s, b + 1, Len(s)))

\* ' '.join(words)
RECURSIVE Join(_)
Join(words) ==
    IF words = <<>> THEN <<>>
    ELSE IF Len(words) = 1 THEN Head(words)
    ELSE Head(words) \o <<" ">> \o Join(Tail(words))

CollapseSpaces(s) == Join(Split(s))

\* a normalisation that keeps the "Episode N" suffix
clean_title_keeping_episode(title) ==
    CollapseSpaces(
        StripDashNumber(
            RemoveDelimited(RemoveDelimited(title, "[", "]"), "(", ")")))

clean_title(title) ==
    CollapseSpaces(
        StripEpisode(
            StripDashNumber(
                RemoveDelimited(RemoveDelimited(title, "[", "]"), "(", ")"))))

----------------------------------------------------------------------------
(* strip_html *)

\* re.sub(r'<[^>]+>', '', s): the leftmost "<" that has a ">" after it, not
\* right after it, is removed with everything up to the nearest such ">", and
\* so on in the rest
RECURSIVE RemoveTags(_)
RemoveTags(s) ==
    LET Ends(i) == {j \in (i + 2)..Len(s) :
                        s[j] = ">" /\ \A k \in (i + 1)..(j - 1) : s[k] # ">"}
        starts == {i \in 1..Len(s) : s[i] = "<" /\ Ends(i) # {}}
    IN  IF starts = {} THEN s
        ELSE LET i == Min(starts)
             IN  Slice(s, 1, i - 1) \o RemoveTags(Slice(s, Min(Ends(i)) + 1, Len(s)))

\* html.unescape, for the one character reference the modelled descriptions
\* hold: "&amp", with or without its semicolon, is "&"
RECURSIVE Unescape(_)
Unescape(s) ==
    LET refs == {i \in 1..(Len(s) - 3) : SubSeq(s, i, i + 3) = <<"&", "a", "m", "p">>}
    IN  IF refs = {} THEN s
        ELSE LET i == Min(refs)
                 end == IF i + 4 <= Len(s) /\ s[i + 4] = ";" THEN i + 4 ELSE i + 3
             IN  Slice(s, 1, i) \o Unescape(Slice(s, end + 1, Len(s)))

strip_html(html_content) == CollapseSpaces(Unescape(RemoveTags(html_content)))

----------------------------------------------------------------------------
(* The literals of the f-strings *)

MAX_MESSAGE_LENGTH == 4096

\* "U+1F4E2 *New content from "
NewContentFrom ==
    <<"U+1F4E2", " ", "*", "N", "e", "w", " ", "c", "o", "n", "t", "e", "n",
      "t", " ", "f", "r", "o", "m", " ">>

OpenLink == <<"O", "p", "e", "n", " ", "L", "i", "n", "k">>

NoTitle == <<"N", "o", " ", "t", "i", "t", "l", "e">>

StartedText ==
    <<"U+1F916", " ", "*", "R", "S", "S", " ", "M", "o", "n", "i", "t",
      "o", "r", "i", "n", "g", " ", "B", "o", "t", " ", "s", "t", "a", "r",
      "t", "e", "d", "!", "*", "\n", "A", "c", "t", "i", "v", "e", " ",
      "f", "e", "e", "d", " ", "m", "o", "n", "i", "t", "o", "r", "i", "n",
      "g", ".", " ", "C", "o", "n", "f", "i", "g", "u", "r", "a", "t", "i",
      "o", "n", " ", "l", "o", "a", "d", "e", "d", " ", "f", "r", "o", "m",
      " ", "f", "i", "l", "e", ".">>

\* python truthiness of a str or None
Truthy(v) == v # None /\ v # <<>>

----------------------------------------------------------------------------
(* The send primitives.  api_ok is what the Telegram API does with the     *)
(* call: TRUE when it returns, FALSE when it raises.                       *)

SendKwargs(method, text, photo, message_thread_id, reply_markup) ==
    [ method |-> method,
      chat_id |-> TELEGRAM_CHAT_ID,
      text |-> text,
      photo |-> photo,
      disable_notification |-> DISABLE_NOTIFICATION,
      message_thread_id |-> message_thread_id,
      reply_markup |-> reply_markup,
      secs |-> 0 ]

\* the call recorded with its outcome; the function's result is .ok
send_telegram_message(message, message_thread_id, reply_markup, api_ok) ==
    [ call |-> SendKwargs("send_message", message, None, message_thread_id,
                          reply_markup),
      ok |-> api_ok ]

\* the caption is recorded in the text field
send_photo_message(photo_url, caption, message_thread_id, reply_markup, api_ok) ==
    [ call |-> SendKwargs("send_photo", caption, photo_url, message_thread_id,
                          reply_markup),
      ok |-> api_ok ]

\* await asyncio.sleep(secs)
Sleep(secs) ==
    [ call |-> [ method |-> "sleep", chat_id |-> None, text |-> None,
                 photo |-> None, disable_notification |-> FALSE,
                 message_thread_id |-> None, reply_markup |-> None,
                 secs |-> secs ],
      ok |-> TRUE ]

IsSend(ev) == ev.call.method \in {"send_message", "send_photo"}

\* the number of Telegram calls in a log
RECURSIVE NumSends(_)
NumSends(log) ==
    IF log = <<>> THEN 0
    ELSE (IF IsSend(Head(log)) THEN 1 ELSE 0) + NumSends(Tail(log))

----------------------------------------------------------------------------
(* send_grouped_messages *)

GroupedHeader(feed_title) == NewContentFrom \o feed_title \o <<"*", "\n", "\n">>

\* desc, cut at 150 characters
Truncated(desc) ==
    IF Len(desc) > 150 THEN SubSeq(desc, 1, 147) \o <<".", ".", ".">> ELSE desc

DescriptionLine(entry) ==
    IF INCLUDE_DESCRIPTION /\ Truthy(entry.description)
    THEN <<" ", " ", "_">> \o Truncated(strip_html(entry.description))
             \o <<"_", "\n">>
    ELSE <<>>

\* entry_text of lines 197-208
GroupedEntryText(entry) ==
    <<"U+2022", " ", "*">> \o entry.title \o <<"*", "\n">>
        \o DescriptionLine(entry)
        \o (IF TELEGRAM_MESSAGE_LINKS_BUTTON
            THEN <<"\n", " ", " ", "[">> \o OpenLink \o <<"]", "(">>
                     \o entry.link \o <<")", "\n", "\n">>
            ELSE <<"\n", " ", " ">> \o entry.link \o <<"\n", "\n">>)

\* a formatter that never splits
OverflowsNever(header, entries_text, entry_text) == FALSE

\* lines 210-214: whether the buffer is sent before this entry's text
Overflows(header, entries_text, entry_text) ==
    Len(header) + Len(entries_text) + Len(entry_text) > MAX_MESSAGE_LENGTH

\* lines 196-217 for one feed: the texts passed to send_telegram_message
RECURSIVE GroupedTexts(_, _, _)
GroupedTexts(header, entries_text, entries) ==
    IF entries = <<>>
    THEN (IF entries_text # <<>> THEN <<header \o entries_text>> ELSE <<>>)
    ELSE LET entry_text == GroupedEntryText(Head(entries))
         IN  IF Overflows(header, entries_text, entry_text)
             THEN <<header \o entries_text>>
                      \o GroupedTexts(header, entry_text, Tail(entries))
             ELSE GroupedTexts(header, entries_text \o entry_text, Tail(entries))

\* the texts sent with the outcomes api_ok gives them, call by call
RECURSIVE SendTexts(_, _, _)
SendTexts(texts, log, api_ok) ==
    IF texts = <<>> THEN log
    ELSE SendTexts(Tail(texts),
                   Append(log, send_telegram_message(Head(texts), TELEGRAM_FORUM_ID,
                                                     None, api_ok[NumSends(log) + 1])),
                   api_ok)

\* a formatter without the tests of lines 190 and 216
GroupedFeedUnguarded(group, log, api_ok) ==
    IF group.entries = <<>>
    THEN log \o <<send_telegram_message(GroupedHeader(group.feed_title),
                                        TELEGRAM_FORUM_ID, None, TRUE),
                  Sleep(1)>>
    ELSE Append(SendTexts(GroupedTexts(GroupedHeader(group.feed_title), <<>>,
                                       group.entries),
                          log, api_ok),
                Sleep(1))

\* a formatter that sleeps after every message
GroupedFeedPacingMessages(group, log, api_ok) ==
    IF group.entries = <<>> THEN log
    ELSE LET out == SendTexts(GroupedTexts(GroupedHeader(group.feed_title), <<>>,
                                           group.entries),
                              log, api_ok)
             n == Len(out) - Len(log)
         IN  log \o [i \in 1..(2 * n) |->
                        IF i % 2 = 1 THEN out[Len(log) + (i + 1) \div 2]
                        ELSE Sleep(1)]

\* lines 189-219 for one feed title
GroupedFeed(group, log, api_ok) ==
    IF group.entries = <<>> THEN log
    ELSE Append(SendTexts(GroupedTexts(GroupedHeader(group.feed_title), <<>>,
                                       group.entries),
                          log, api_ok),
                Sleep(1))

RECURSIVE GroupedLoop(_, _, _)
GroupedLoop(groups, log, api_ok) ==
    IF groups = <<>> THEN log
    ELSE GroupedLoop(Tail(groups), GroupedFeed(Head(groups), log, api_ok), api_ok)

\* the log after send_grouped_messages(bot, groups)
send_grouped_messages(groups, log, api_ok) == GroupedLoop(groups, log, api_ok)

----------------------------------------------------------------------------
(* send_single_messages *)

\* a message that has the link only when the entry has no image
SingleTextLinkWithoutImage(feed_title, entry) ==
    NewContentFrom \o feed_title \o <<"*", "\n", "\n", "*">> \o entry.title
        \o <<"*", "\n">>
        \o DescriptionLine(entry)
        \o (IF Truthy(entry.image_url) THEN <<>> ELSE <<"\n">> \o entry.link)

\* message of lines 231-243
SingleText(feed_title, entry) ==
    NewContentFrom \o feed_title \o <<"*", "\n", "\n", "*">> \o entry.title
        \o <<"*", "\n">>
        \o DescriptionLine(entry)
        \o (IF TELEGRAM_MESSAGE_LINKS_BUTTON THEN <<>> ELSE <<"\n">> \o entry.link)

\* InlineKeyboardMarkup([[InlineKeyboardButton("Open Link", url=link)]])
SingleMarkup(entry) ==
    IF TELEGRAM_MESSAGE_LINKS_BUTTON
    THEN <<OpenLink, entry.link>>
    ELSE None

\* a formatter that sends the photo and nothing after it
SingleEntryNoFallback(feed_title, entry, log, api_ok) ==
    LET message == SingleText(feed_title, entry)
        reply_markup == SingleMarkup(entry)
        n == NumSends(log)
    IN  IF Truthy(entry.image_url)
        THEN log \o <<send_photo_message(entry.image_url, message, TELEGRAM_FORUM_ID,
                                         reply_markup, api_ok[n + 1]),
                      Sleep(1)>>
        ELSE log \o <<send_telegram_message(message, TELEGRAM_FORUM_ID,
                                            reply_markup, api_ok[n + 1]),
                      Sleep(1)>>

\* lines 246-256 for one entry
SingleEntry(feed_title, entry, log, api_ok) ==
    LET message == SingleText(feed_title, entry)
        reply_markup == SingleMarkup(entry)
        n == NumSends(log)
        photo == send_photo_message(entry.image_url, message, TELEGRAM_FORUM_ID,
                                    reply_markup, api_ok[n + 1])
    IN  IF Truthy(entry.image_url)
        THEN IF photo.ok
             THEN log \o <<photo, Sleep(1)>>
             ELSE log \o <<photo,
                           send_telegram_message(message, TELEGRAM_FORUM_ID,
                                                 reply_markup, api_ok[n + 2]),
                           Sleep(1)>>
        ELSE log \o <<send_telegram_message(message, TELEGRAM_FORUM_ID,
                                            reply_markup, api_ok[n + 1]),
                      Sleep(1)>>

RECURSIVE SingleEntries(_, _, _, _)
SingleEntries(feed_title, entries, log, api_ok) ==
    IF entries = <<>> THEN log
    ELSE SingleEntries(feed_title, Tail(entries),
                       SingleEntry(feed_title, Head(entries), log, api_ok), api_ok)

RECURSIVE SingleLoop(_, _, _)
SingleLoop(groups, log, api_ok) ==
    IF groups = <<>> THEN log
    ELSE SingleLoop(Tail(groups),
                    SingleEntries(Head(groups).feed_title, Head(groups).entries,
                                  log, api_ok),
                    api_ok)

\* the log after send_single_messages(bot, groups)
send_single_messages(groups, log, api_ok) == SingleLoop(groups, log, api_ok)

----------------------------------------------------------------------------
(* Dictionaries and lists *)

EmptyDict == <<>>

\* d.setdefault(k, v), for its effect on d
SetDefault(d, k, v) == IF k \in DOMAIN d THEN d ELSE d @@ (k :> v)

\* x in list
InList(x, list) == \E i \in 1..Len(list) : list[i] = x

\* list.count(x)
Count(x, list) == Cardinality({i \in 1..Len(list) : list[i] = x})

\* the sequences over S of length at most n
SeqsUpTo(S, n) == UNION {[1..k -> S] : k \in 0..n}

\* the <<feed URL, identifier>> pairs a history dictionary records
Pairs(d) == UNION {{<<u, d[u][i]>> : i \in 1..Len(d[u])} : u \in DOMAIN d}

----------------------------------------------------------------------------
(* The files *)

\* a JSON file: missing, not JSON, or holding a dictionary
MissingFile == [state |-> "missing", data |-> EmptyDict]
MalformedFile == [state |-> "malformed", data |-> EmptyDict]

\* a file whose bytes are no text in the encoding open() reads with
UndecodableFile == [state |-> "undecodable", data |-> EmptyDict]

\* lines 128-131: f.read() raises UnicodeDecodeError, which is a ValueError
\* but no json.JSONDecodeError, so the except clause lets it pass
LoadRaises(file) == file.state = "undecodable"
JsonFile(d) == [state |-> "ok", data |-> d]

\* a loader that forgets the file
load_sent_items_forgetting(file) == EmptyDict

\* json.load of a file json.dump wrote gives the dictionary back: its keys
\* and values are strs and lists of strs
load_sent_items(file) == IF file.state = "ok" THEN file.data ELSE EmptyDict

save_sent_items(items) == JsonFile(items)

load_image_cache(file) == IF file.state = "ok" THEN file.data ELSE EmptyDict

save_image_cache(cache) == JsonFile(cache)

\* str.strip()
Strip(s) ==
    LET kept == {i \in 1..Len(s) : ~IsSpace(s[i])}
    IN  IF kept = {} THEN <<>>
        ELSE SubSeq(s, Min(kept), Len(s) - SpacesBefore(s, Len(s)))

\* the feed file: [exists, lines]; load_feeds keeps the stripped lines that
\* are not blank and do not start with "#"
RECURSIVE FeedLines(_)
FeedLines(lines) ==
    IF lines = <<>> THEN <<>>
    ELSE LET line == Strip(Head(lines))
         IN  (IF line # <<>> /\ Head(line) # "#" THEN <<line>> ELSE <<>>)
                 \o FeedLines(Tail(lines))

load_feeds(file) == IF file.exists THEN FeedLines(file.lines) ELSE <<>>

----------------------------------------------------------------------------
(* get_anime_image_from_anilist *)

\* a lookup that returns the image and does not write the cache
get_anime_image_unsaved(title, file, anilist) ==
    LET cache == load_image_cache(file)
        cleaned_title == clean_title(title)
    IN  IF cleaned_title \in DOMAIN cache
        THEN [image_url |-> cache[cleaned_title], file |-> file,
              key |-> cleaned_title, requested |-> FALSE]
        ELSE [image_url |-> IF ~anilist.error /\ anilist.media # <<>>
                            THEN anilist.media[1] ELSE None,
              file |-> file, key |-> cleaned_title, requested |-> TRUE]

\* a lookup that also caches that there was no match
get_anime_image_caching_none(title, file, anilist) ==
    LET cache == load_image_cache(file)
        cleaned_title == clean_title(title)
        image_url == IF anilist.media # <<>> THEN anilist.media[1] ELSE None
    IN  IF cleaned_title \in DOMAIN cache
        THEN [image_url |-> cache[cleaned_title], file |-> file,
              key |-> cleaned_title, requested |-> FALSE]
        ELSE IF ~anilist.error
             THEN [image_url |-> image_url,
                   file |-> save_image_cache((cleaned_title :> image_url) @@ cache),
                   key |-> cleaned_title, requested |-> TRUE]
             ELSE [image_url |-> None, file |-> file,
                   key |-> cleaned_title, requested |-> TRUE]

\* anilist: what the request does, [error, media]: an exception, or the
\* cover images of the matches in order.  The result is the value returned,
\* the image cache file after the call, the cache key, and whether line 86
\* was reached.
get_anime_image_from_anilist(title, file, anilist) ==
    LET cache == load_image_cache(file)
        cleaned_title == clean_title(title)
    IN  IF cleaned_title \in DOMAIN cache
        THEN [image_url |-> cache[cleaned_title], file |-> file,
              key |-> cleaned_title, requested |-> FALSE]
        ELSE IF ~anilist.error /\ anilist.media # <<>>
             THEN [image_url |-> anilist.media[1],
                   file |-> save_image_cache(
                                (cleaned_title :> anilist.media[1]) @@ cache),
                   key |-> cleaned_title, requested |-> TRUE]
             ELSE [image_url |-> None, file |-> file,
                   key |-> cleaned_title, requested |-> TRUE]

----------------------------------------------------------------------------
(* check_feeds: the loop over the entries of one feed *)

\* hasattr(entry, 'id') / entry.link at line 289
HasIdentifier(entry) == entry.id # None \/ entry.link # None

EntryId(entry) == IF entry.id # None THEN entry.id ELSE entry.link

\* getattr(entry, name, '')
AttrOrEmpty(v) == IF v = None THEN <<>> ELSE v

\* lines 293-301: the record appended to messages_by_feed
NewEntry(entry, image_url) ==
    [ title |-> IF entry.title # None THEN entry.title ELSE NoTitle,
      link |-> IF entry.link # None THEN entry.link ELSE <<>>,
      description |->
          IF INCLUDE_DESCRIPTION
          THEN IF AttrOrEmpty(entry.description) # <<>>
               THEN AttrOrEmpty(entry.description)
               ELSE AttrOrEmpty(entry.summary)
          ELSE <<>>,
      image_url |-> image_url ]

\* a diff that finds every entry new
AlreadySentNever(entry_id, sent) == FALSE

\* line 290
AlreadySent(entry_id, sent) == InList(entry_id, sent)

\* a loop that appends the identifier before the image is looked up, and
\* that a failed lookup ends
RECURSIVE EntryLoopMarkingFirst(_, _, _, _)
EntryLoopMarkingFirst(entries, k, st, anilist) ==
    IF k > Len(entries) THEN st
    ELSE IF ~HasIdentifier(entries[k]) THEN st
    ELSE LET entry == entries[k]
             entry_id == EntryId(entry)
         IN  IF AlreadySent(entry_id, st.sent)
             THEN EntryLoopMarkingFirst(entries, k + 1, st, anilist)
             ELSE IF anilist[k].error
             THEN [st EXCEPT !.sent = Append(@, entry_id),
                             !.ids = @ \cup {entry_id}]
             ELSE LET title == IF entry.title # None THEN entry.title ELSE NoTitle
                      img == get_anime_image_from_anilist(title, st.file, anilist[k])
                  IN  EntryLoopMarkingFirst(entries, k + 1,
                                [ sent |-> Append(st.sent, entry_id),
                                  new |-> Append(st.new, NewEntry(entry, img.image_url)),
                                  file |-> img.file,
                                  ids |-> st.ids \cup {entry_id} ],
                                anilist)

\* lines 288-302 from the k-th entry on.  st is [sent, new, file, ids]: the
\* feed's list in sent_items, the records appended for it, the image cache
\* file, the identifiers appended.  An entry with neither id nor link raises
\* AttributeError at line 289, which line 303 catches: the loop ends there.
RECURSIVE EntryLoop(_, _, _, _)
EntryLoop(entries, k, st, anilist) ==
    IF k > Len(entries) THEN st
    ELSE IF ~HasIdentifier(entries[k]) THEN st
    ELSE LET entry == entries[k]
             entry_id == EntryId(entry)
         IN  IF AlreadySent(entry_id, st.sent)
             THEN EntryLoop(entries, k + 1, st, anilist)
             ELSE LET title == IF entry.title # None THEN entry.title ELSE NoTitle
                      img == get_anime_image_from_anilist(title, st.file, anilist[k])
                  IN  EntryLoop(entries, k + 1,
                                [ sent |-> Append(st.sent, entry_id),
                                  new |-> Append(st.new, NewEntry(entry, img.image_url)),
                                  file |-> img.file,
                                  ids |-> st.ids \cup {entry_id} ],
                                anilist)

\* messages_by_feed.setdefault(feed_title, []) and the appends to it; the
\* dictionary is the sequence of its items in insertion order
AppendToGroup(groups, feed_title, new) ==
    IF \E g \in 1..Len(groups) : groups[g].feed_title = feed_title
    THEN [g \in 1..Len(groups) |->
              IF groups[g].feed_title = feed_title
              THEN [groups[g] EXCEPT !.entries = @ \o new]
              ELSE groups[g]]
    ELSE Append(groups, [feed_title |-> feed_title, entries |-> new])

\* a loop that a raising feed ends with the groups of the feeds before lost
CheckOneFeedAborting(feed_url, feed, items, groups, file, anilist) ==
    IF feed.raises
    THEN [sent_items |-> items, messages_by_feed |-> <<>>, file |-> file,
          ids |-> {}]
    ELSE IF feed.entries = <<>>
    THEN [sent_items |-> items, messages_by_feed |-> groups, file |-> file,
          ids |-> {}]
    ELSE LET feed_title == IF feed.title # None THEN feed.title ELSE feed_url
             items0 == SetDefault(items, feed_url, <<>>)
             st == EntryLoop(feed.entries, 1,
                             [sent |-> items0[feed_url], new |-> <<>>,
                              file |-> file, ids |-> {}],
                             anilist)
         IN  [sent_items |-> [items0 EXCEPT ![feed_url] = st.sent],
              messages_by_feed |-> AppendToGroup(groups, feed_title, st.new),
              file |-> st.file,
              ids |-> st.ids]

\* lines 277-304 for one feed.  feed is what feedparser.parse does: [raises,
\* title, entries].  The result is [sent_items, messages_by_feed, file, ids].
CheckOneFeed(feed_url, feed, items, groups, file, anilist) ==
    IF feed.raises \/ feed.entries = <<>>
    THEN [sent_items |-> items, messages_by_feed |-> groups, file |-> file,
          ids |-> {}]
    ELSE LET feed_title == IF feed.title # None THEN feed.title ELSE feed_url
             items0 == SetDefault(items, feed_url, <<>>)
             st == EntryLoop(feed.entries, 1,
                             [sent |-> items0[feed_url], new |-> <<>>,
                              file |-> file, ids |-> {}],
                             anilist)
         IN  [sent_items |-> [items0 EXCEPT ![feed_url] = st.sent],
              messages_by_feed |-> AppendToGroup(groups, feed_title, st.new),
              file |-> st.file,
              ids |-> st.ids]

----------------------------------------------------------------------------
(* The inputs of the model *)

\* the longest entry list feedparser.parse returns
MaxEntries == 2

U1 == <<"u", "1">>
U2 == <<"u", "2">>

\* the contents of FEEDS_FILE the loop may find
FeedsFiles ==
    { [exists |-> FALSE, lines |-> <<>>],
      [exists |-> TRUE, lines |-> << <<"#", "x">>, U1 >>],
      [exists |-> TRUE, lines |-> << U1, <<" ">>, <<" ">> \o U2 \o <<" ">> >>] }

\* entries as feedparser gives them; a missing attribute is None
RawEntries ==
    { [ id |-> <<"a">>, link |-> <<"l", "1">>,
        title |-> <<"[", "G", "]", " ", "S", " ", "-", " ", "0", "3">>,
        description |-> <<"<", "b", ">", "d", "<", "/", "b", ">">>,
        summary |-> None ],
      [ id |-> None, link |-> <<"l", "2">>,
        title |-> <<"S", " ", "E", "p", "i", "s", "o", "d", "e", " ", "5">>,
        description |-> None, summary |-> None ],
      [ id |-> None, link |-> None, title |-> None,
        description |-> None, summary |-> <<"s">> ] }

FeedTitle == <<"T">>

\* what feedparser.parse may do: raise, or give a feed, which has a title
\* or, with one entry, none
ParsedFeeds ==
    { [raises |-> TRUE, title |-> None, entries |-> <<>>] }
        \cup { [raises |-> FALSE, title |-> FeedTitle, entries |-> es] :
                   es \in SeqsUpTo(RawEntries, MaxEntries) }
        \cup { [raises |-> FALSE, title |-> None, entries |-> es] :
                   es \in SeqsUpTo(RawEntries, 1) }

\* what a request to AniList may do
AniListError == [error |-> TRUE, media |-> <<>>]
AniListNoMatch == [error |-> FALSE, media |-> <<>>]
AniListMatch == [error |-> FALSE, media |-> << <<"i", "1">>, <<"i", "2">> >>]

\* what AniList does with the requests made for the n entries of one feed,
\* entry by entry: the same for all, or a change after the first
AniListBehaviours(n) ==
    { [k \in 1..n |-> AniListError], [k \in 1..n |-> AniListNoMatch],
      [k \in 1..n |-> AniListMatch],
      [k \in 1..n |-> IF k = 1 THEN AniListNoMatch ELSE AniListMatch],
      [k \in 1..n |-> IF k = 1 THEN AniListMatch ELSE AniListError] }

\* the environments the process is started in
Environment(token, chat, forum, grouped, button, description, silent) ==
    [ TELEGRAM_BOT_TOKEN |-> token, TELEGRAM_CHAT_ID |-> chat,
      TELEGRAM_FORUM_ID |-> forum, TELEGRAM_GROUPED_MESSAGES |-> grouped,
      TELEGRAM_MESSAGE_LINKS_BUTTON |-> button,
      INCLUDE_DESCRIPTION |-> description, DISABLE_NOTIFICATION |-> silent ]

Token == <<"t", "k">>
Chat == <<"4", "2">>

DefaultEnvironment == Environment(Token, Chat, None, TRUE, FALSE, FALSE, FALSE)

ValidEnvironments ==
    { DefaultEnvironment,
      Environment(Token, Chat, <<"7">>, FALSE, FALSE, TRUE, TRUE),
      Environment(Token, Chat, None, FALSE, TRUE, FALSE, FALSE) }

InvalidEnvironments ==
    { Environment(None, Chat, None, TRUE, FALSE, FALSE, FALSE),
      Environment(Token, <<>>, None, TRUE, FALSE, FALSE, FALSE),
      Environment(Token, Chat, <<"x">>, TRUE, FALSE, FALSE, FALSE) }

\* the environment and the history file the process finds when it starts
Starts ==
    { [env |-> env, history |-> MissingFile] :
          env \in ValidEnvironments \cup InvalidEnvironments }
        \cup { [env |-> DefaultEnvironment, history |-> MalformedFile],
               [env |-> DefaultEnvironment,
                history |-> JsonFile(U1 :> << <<"a">> >>)] }

----------------------------------------------------------------------------
(* The state *)

config ==
    <<TELEGRAM_BOT_TOKEN, TELEGRAM_CHAT_ID, TELEGRAM_FORUM_ID,
      TELEGRAM_GROUPED_MESSAGES, TELEGRAM_MESSAGE_LINKS_BUTTON,
      INCLUDE_DESCRIPTION, DISABLE_NOTIFICATION>>

files == <<history_file, image_cache_file>>

locals == <<sent_items, feeds, feed_index, messages_by_feed>>

cycle == <<outbox, last_fetch, fetched, handed, saves>>

vars ==
    <<config, files, pc, locals, announcement, cycle, handed_before, lost, lookups>>

SetEnvironment(env) ==
    /\ TELEGRAM_BOT_TOKEN = env.TELEGRAM_BOT_TOKEN
    /\ TELEGRAM_CHAT_ID = env.TELEGRAM_CHAT_ID
    /\ TELEGRAM_FORUM_ID = env.TELEGRAM_FORUM_ID
    /\ TELEGRAM_GROUPED_MESSAGES = env.TELEGRAM_GROUPED_MESSAGES
    /\ TELEGRAM_MESSAGE_LINKS_BUTTON = env.TELEGRAM_MESSAGE_LINKS_BUTTON
    /\ INCLUDE_DESCRIPTION = env.INCLUDE_DESCRIPTION
    /\ DISABLE_NOTIFICATION = env.DISABLE_NOTIFICATION

\* the process as it starts: nothing of main_async has run
Started ==
    /\ pc = "main_async"
    /\ sent_items = EmptyDict
    /\ feeds = <<>>
    /\ feed_index = 0
    /\ messages_by_feed = <<>>
    /\ announcement = <<>>
    /\ outbox = <<>>
    /\ last_fetch = "none"
    /\ fetched = {}
    /\ handed = {}
    /\ saves = 0

StartIn(starts) ==
    /\ \E start \in starts :
           /\ SetEnvironment(start.env)
           /\ history_file = start.history
    /\ image_cache_file = MissingFile
    /\ Started
    /\ handed_before = {}
    /\ lost = {}
    /\ lookups = <<>>

Init == StartIn(Starts)

----------------------------------------------------------------------------
(* main_async *)

\* int(s) does not raise: digits, after an optional sign, between optional
\* whitespace
IsInt(s) ==
    LET t == Strip(s)
        digits == IF t # <<>> /\ Head(t) \in {"+", "-"} THEN Tail(t) ELSE t
    IN  digits # <<>> /\ \A k \in 1..Len(digits) : IsDigit(digits[k])

\* a validation that does not look at TELEGRAM_FORUM_ID
ValidationWithoutForum ==
    IF ~Truthy(TELEGRAM_BOT_TOKEN) \/ ~Truthy(TELEGRAM_CHAT_ID) THEN "returned"
    ELSE "startup"

\* lines 316-324: "returned", "raised" (the ValueError) or "startup"
Validation ==
    IF ~Truthy(TELEGRAM_BOT_TOKEN) \/ ~Truthy(TELEGRAM_CHAT_ID) THEN "returned"
    ELSE IF Truthy(TELEGRAM_FORUM_ID) /\ ~IsInt(TELEGRAM_FORUM_ID) THEN "raised"
    ELSE "startup"

Validate ==
    /\ pc = "main_async"
    /\ pc' = Validation
    /\ UNCHANGED <<config, files, locals, announcement, cycle, handed_before, lost, lookups>>

\* line 327
Startup ==
    /\ pc = "startup"
    /\ \E api_ok \in BOOLEAN :
           announcement' =
               <<send_telegram_message(StartedText, TELEGRAM_FORUM_ID, None, api_ok)>>
    /\ pc' = "check_feeds"
    /\ UNCHANGED <<config, files, locals, cycle, handed_before, lost, lookups>>

\* a check_feeds whose early return skips save_sent_items
BeginCheckSkippingSave ==
    /\ pc = "check_feeds"
    /\ sent_items' = load_sent_items(history_file)
    /\ \E file \in FeedsFiles : feeds' = load_feeds(file)
    /\ messages_by_feed' = <<>>
    /\ feed_index' = 1
    /\ pc' = IF feeds' = <<>> THEN "sleep" ELSE "feeds"
    /\ announcement' = <<>>
    /\ UNCHANGED <<config, files, cycle, handed_before, lost, lookups>>

\* lines 262-269: a cycle begins, or load_sent_items raises at line 262 and
\* nothing in check_feeds or main_async catches it
BeginCheck ==
    /\ pc = "check_feeds"
    /\ IF LoadRaises(history_file)
       THEN /\ pc' = "raised"
            /\ UNCHANGED locals
       ELSE /\ sent_items' = load_sent_items(history_file)
            /\ \E file \in FeedsFiles : feeds' = load_feeds(file)
            /\ messages_by_feed' = <<>>
            /\ feed_index' = 1
            /\ pc' = IF feeds' = <<>> THEN "save" ELSE "feeds"
    /\ announcement' = <<>>
    /\ UNCHANGED <<config, files, cycle, handed_before, lost, lookups>>

\* the identifiers a fetch brings that sent_items does not hold
Unseen(feed_url, feed, items) ==
    { <<feed_url, EntryId(feed.entries[k])>> :
          k \in { j \in 1..Len(feed.entries) :
                    /\ HasIdentifier(feed.entries[j])
                    /\ ~(/\ feed_url \in DOMAIN items
                         /\ InList(EntryId(feed.entries[j]), items[feed_url])) } }

FetchKind(feed) ==
    IF feed.raises THEN "raises" ELSE IF feed.entries = <<>> THEN "empty" ELSE "entries"

\* lines 271-304: one turn of the loop over the feeds
CheckFeed ==
    /\ pc = "feeds"
    /\ feed_index <= Len(feeds)
    /\ \E feed \in ParsedFeeds : \E anilist \in AniListBehaviours(MaxEntries) :
           LET feed_url == feeds[feed_index]
               r == CheckOneFeed(feed_url, feed, sent_items, messages_by_feed,
                                 image_cache_file, anilist)
           IN  /\ sent_items' = r.sent_items
               /\ messages_by_feed' = r.messages_by_feed
               /\ image_cache_file' = r.file
               /\ handed' = handed \cup {<<feed_url, id>> : id \in r.ids}
               /\ fetched' = fetched \cup Unseen(feed_url, feed, sent_items)
               /\ last_fetch' = FetchKind(feed)
    /\ feed_index' = feed_index + 1
    /\ UNCHANGED <<config, history_file, pc, feeds, announcement, outbox, saves,
                   handed_before, lost, lookups>>

\* the most Telegram calls a notification makes: two for each entry
MaxSends(groups) ==
    LET RECURSIVE Entries(_)
        Entries(gs) == IF gs = <<>> THEN 0
                       ELSE Len(Head(gs).entries) + Entries(Tail(gs))
    IN  2 * Entries(groups)

\* what the Telegram API does with the calls of one notification, call by
\* call: all return, all raise, or they alternate
ApiBehaviours(n) ==
    { [k \in 1..n |-> TRUE], [k \in 1..n |-> FALSE],
      [k \in 1..n |-> k % 2 = 0], [k \in 1..n |-> k % 2 = 1] }

\* lines 306-309
Notification(groups, api_ok) ==
    IF TELEGRAM_GROUPED_MESSAGES
    THEN send_grouped_messages(groups, <<>>, api_ok)
    ELSE send_single_messages(groups, <<>>, api_ok)

\* a notification whose failed send is raised to main_async
NotifyRaising ==
    /\ pc = "feeds"
    /\ feed_index > Len(feeds)
    /\ \E api_ok \in ApiBehaviours(MaxSends(messages_by_feed)) :
           outbox' = Notification(messages_by_feed, api_ok)
    /\ pc' = IF \E i \in 1..Len(outbox') : ~outbox'[i].ok THEN "raised" ELSE "save"
    /\ last_fetch' = "none"
    /\ UNCHANGED <<config, files, locals, announcement, fetched, handed,
                   saves, handed_before, lost, lookups>>

Notify ==
    /\ pc = "feeds"
    /\ feed_index > Len(feeds)
    /\ \E api_ok \in ApiBehaviours(MaxSends(messages_by_feed)) :
           outbox' = Notification(messages_by_feed, api_ok)
    /\ pc' = "save"
    /\ last_fetch' = "none"
    /\ UNCHANGED <<config, files, locals, announcement, fetched, handed,
                   saves, handed_before, lost, lookups>>

\* line 331
Save ==
    /\ pc = "save"
    /\ history_file' = save_sent_items(sent_items)
    /\ saves' = saves + 1
    /\ pc' = "sleep"
    /\ UNCHANGED <<config, image_cache_file, locals, announcement, outbox,
                   last_fetch, fetched, handed, handed_before, lost, lookups>>

\* line 333: asyncio.sleep(CHECK_INTERVAL) returns, and the cycle is over
Wake ==
    /\ pc = "sleep"
    /\ pc' = "check_feeds"
    /\ sent_items' = EmptyDict
    /\ feeds' = <<>>
    /\ feed_index' = 0
    /\ messages_by_feed' = <<>>
    /\ outbox' = <<>>
    /\ fetched' = {}
    /\ handed' = {}
    /\ handed_before' = handed_before \cup handed
    /\ saves' = 0
    /\ lost' = lost \ Pairs(history_file.data)
    /\ UNCHANGED <<config, files, announcement, last_fetch, lookups>>

Next == Validate \/ Startup \/ BeginCheck \/ CheckFeed \/ Notify \/ Save \/ Wake

Spec == Init /\ [][Next]_vars

\* the values of feed_index
FeedIndexes == UNION {0..(Len(load_feeds(file)) + 1) : file \in FeedsFiles}

\* the place in the code: the statement and the turn of the loop over the feeds
control == <<pc, feed_index>>

\* the steps of Next are the steps that move the one flow of control on: they
\* change pc, or take the next feed of the loop
ControlMoves ==
    /\ pc \in {"main_async", "startup", "check_feeds", "feeds", "save", "sleep"}
    /\ \/ /\ pc' \in {"returned", "raised", "startup", "check_feeds", "feeds",
                       "save", "sleep"}
          /\ pc' # pc
          /\ feed_index' \in FeedIndexes
       \/ /\ pc' = pc
          /\ feed_index' = feed_index + 1

\* every step is taken in the end: each await returns and nothing else halts
\* the flow of control
LiveSpec == Spec /\ WF_control(ControlMoves)

----------------------------------------------------------------------------
(* The process stops and is started again *)

\* the process is killed anywhere after validation and started again with
\* the same environment and files; the markings made in memory since the
\* last save_sent_items are gone
Crash ==
    /\ pc \in {"startup", "check_feeds", "feeds", "save", "sleep"}
    /\ lost' = (lost \cup (IF pc = "save" THEN handed ELSE {}))
                   \ Pairs(history_file.data)
    /\ handed_before' = handed_before \cup (IF pc \in {"save", "sleep"} THEN handed ELSE {})
    /\ pc' = "main_async"
    /\ sent_items' = EmptyDict
    /\ feeds' = <<>>
    /\ feed_index' = 0
    /\ messages_by_feed' = <<>>
    /\ announcement' = <<>>
    /\ outbox' = <<>>
    /\ last_fetch' = "none"
    /\ fetched' = {}
    /\ handed' = {}
    /\ saves' = 0
    /\ UNCHANGED <<config, files, lookups>>

NextCrash == Next \/ Crash

\* the starts of the runs in which the process is stopped: the history file
\* records an entry of an earlier run
CrashStarts ==
    {start \in Starts : start.env = DefaultEnvironment /\ start.history.state = "ok"}

InitCrash == StartIn(CrashStarts)

SpecCrash == InitCrash /\ [][NextCrash]_vars

----------------------------------------------------------------------------
(* The history file the process finds *)

\* the starts with a history file that holds no dictionary
StorageStarts ==
    { [env |-> DefaultEnvironment, history |-> file] :
          file \in {MissingFile, MalformedFile, UndecodableFile} }

StorageInit == StartIn(StorageStarts)

StorageSpec == StorageInit /\ [][Next]_vars

----------------------------------------------------------------------------
(* The formatters on long entries *)

\* the longest entry list of the feed that is formatted
MaxGroup == 3

\* link lengths: two blocks of MidLen do not fit in one message, one block
\* of LongLen does not fit in any
MidLen == 2100
LongLen == 4100

Pad(c, n) == [k \in 1..n |-> c]

\* a description that strip_html leaves longer than 150 characters
LongDescription == <<"<", "p", ">">> \o Pad("d", 200) \o <<"<", "/", "p", ">">>

LongRawEntries ==
    { [ id |-> <<"a">>, link |-> <<"l", "1">>, title |-> <<"S">>,
        description |-> <<"<", "b", ">", "d", "<", "/", "b", ">">>, summary |-> None ],
      [ id |-> <<"b">>, link |-> Pad("b", MidLen), title |-> <<"S", " ", "-", " ", "2">>,
        description |-> LongDescription, summary |-> None ],
      [ id |-> <<"c">>, link |-> Pad("c", MidLen), title |-> None,
        description |-> None, summary |-> <<"s">> ],
      [ id |-> None, link |-> Pad("d", MidLen), title |-> <<"S", "(", "3", ")">>,
        description |-> None, summary |-> None ],
      [ id |-> <<"e">>, link |-> Pad("e", LongLen), title |-> <<"[", "G", "]", "S">>,
        description |-> None, summary |-> None ] }

FormatEnvironments ==
    { Environment(Token, Chat, None, g, b, d, FALSE) :
          g \in BOOLEAN, b \in BOOLEAN, d \in BOOLEAN }

\* the state when the loop over the feeds has ended, in a first cycle whose
\* one feed gave long entries
FormatInit ==
    /\ \E env \in FormatEnvironments : SetEnvironment(env)
    /\ history_file = MissingFile
    /\ \E es \in SeqsUpTo(LongRawEntries, MaxGroup) \ {<<>>} :
       \E anilist \in { [k \in 1..MaxGroup |-> AniListMatch],
                        [k \in 1..MaxGroup |-> AniListNoMatch] } :
           LET feed == [raises |-> FALSE, title |-> FeedTitle, entries |-> es]
               r == CheckOneFeed(U1, feed, EmptyDict, <<>>, MissingFile, anilist)
           IN  /\ sent_items = r.sent_items
               /\ messages_by_feed = r.messages_by_feed
               /\ image_cache_file = r.file
               /\ handed = {<<U1, id>> : id \in r.ids}
               /\ fetched = Unseen(U1, feed, EmptyDict)
    /\ pc = "feeds"
    /\ feeds = <<U1>>
    /\ feed_index = 2
    /\ last_fetch = "entries"
    /\ announcement = <<>>
    /\ outbox = <<>>
    /\ saves = 0
    /\ handed_before = {}
    /\ lost = {}
    /\ lookups = <<>>

FormatSpec == FormatInit /\ [][Notify]_vars

----------------------------------------------------------------------------
(* The formatters on two feeds *)

\* what the second feed of the cycle gave: an error, or one short entry
\* under the feed's URL as title
SecondFeeds ==
    { [raises |-> TRUE, title |-> None, entries |-> <<>>],
      [raises |-> FALSE, title |-> None,
       entries |-> << [ id |-> <<"a">>, link |-> <<"l", "1">>, title |-> <<"S">>,
                        description |-> None, summary |-> None ] >>] }

\* the entries of the first feed: short ones, and long ones of which two do
\* not fit in one message
PacingRawEntries == {e \in LongRawEntries : e.id # None /\ Len(e.link) <= MidLen}

\* the state when the loop over two feeds has ended, in a first cycle
PacingInit ==
    /\ \E env \in FormatEnvironments : SetEnvironment(env)
    /\ history_file = MissingFile
    /\ \E es \in SeqsUpTo(PacingRawEntries, MaxGroup) \ {<<>>} :
       \E second \in SecondFeeds :
       \E anilist \in { [k \in 1..MaxGroup |-> AniListMatch],
                        [k \in 1..MaxGroup |-> AniListNoMatch] } :
       \E feed \in {[raises |-> FALSE, title |-> FeedTitle, entries |-> es]} :
       \E first \in {CheckOneFeed(U1, feed, EmptyDict, <<>>, MissingFile, anilist)} :
       \E r \in {CheckOneFeed(U2, second, first.sent_items,
                              first.messages_by_feed, first.file, anilist)} :
           /\ sent_items = r.sent_items
           /\ messages_by_feed = r.messages_by_feed
           /\ image_cache_file = r.file
           /\ handed = {<<U1, id>> : id \in first.ids}
                           \cup {<<U2, id>> : id \in r.ids}
           /\ fetched = Unseen(U1, feed, EmptyDict)
                            \cup Unseen(U2, second, first.sent_items)
           /\ last_fetch = FetchKind(second)
    /\ pc = "feeds"
    /\ feeds = <<U1, U2>>
    /\ feed_index = 3
    /\ announcement = <<>>
    /\ outbox = <<>>
    /\ saves = 0
    /\ handed_before = {}
    /\ lost = {}
    /\ lookups = <<>>

PacingSpec == PacingInit /\ [][Notify]_vars

----------------------------------------------------------------------------
(* get_anime_image_from_anilist, call by call *)

\* the most calls made
MaxResolves == 2

\* "[SubGroup] Show Name - 03"
TitleSubGroup ==
    <<"[", "S", "u", "b", "G", "r", "o", "u", "p", "]", " ", "S",
      "h", "o", "w", " ", "N", "a", "m", "e", " ", "-", " ", "0", "3">>

\* "Show Name Episode 5"
TitleEpisode ==
    <<"S", "h", "o", "w", " ", "N", "a", "m", "e", " ", "E", "p",
      "i", "s", "o", "d", "e", " ", "5">>

\* "  Show   Name  "
TitleSpaces ==
    <<" ", " ", "S", "h", "o", "w", " ", " ", " ", "N", "a", "m",
      "e", " ", " ">>

\* "Show Name (2024) [1080p]"
TitleYear ==
    <<"S", "h", "o", "w", " ", "N", "a", "m", "e", " ", "(", "2",
      "0", "2", "4", ")", " ", "[", "1", "0", "8", "0", "p", "]">>

\* "Show Name - 03 Episode 5"
TitleBoth ==
    <<"S", "h", "o", "w", " ", "N", "a", "m", "e", " ", "-", " ",
      "0", "3", " ", "E", "p", "i", "s", "o", "d", "e", " ", "5">>

\* "show name EPISODE 12"
TitleUpper ==
    <<"s", "h", "o", "w", " ", "n", "a", "m", "e", " ", "E", "P",
      "I", "S", "O", "D", "E", " ", "1", "2">>

\* "Other -7 "
TitleOther ==
    <<"O", "t", "h", "e", "r", " ", "-", "7", " ">>

\* "[x](y)"
TitleTags ==
    <<"[", "x", "]", "(", "y", ")">>

\* "Show [a Name"
TitleOpen ==
    <<"S", "h", "o", "w", " ", "[", "a", " ", "N", "a", "m", "e">>

\* "Show Name"
ShowName ==
    <<"S", "h", "o", "w", " ", "N", "a", "m", "e">>

\* "Show Name - 03"
ShowNameDash ==
    <<"S", "h", "o", "w", " ", "N", "a", "m", "e", " ", "-", " ",
      "0", "3">>

\* the entry titles the calls are made with
Titles ==
    { TitleSubGroup, TitleEpisode, TitleSpaces, TitleYear, TitleBoth,
      TitleUpper, TitleOther, TitleTags, TitleOpen }

\* a reply of AniList with another cover image first
AniListOther == [error |-> FALSE, media |-> << <<"i", "3">> >>]

AniListReplies == {AniListError, AniListNoMatch, AniListMatch, AniListOther}

\* the image cache file is missing or not JSON, and no call has been made
ResolveInit ==
    /\ SetEnvironment(DefaultEnvironment)
    /\ history_file = MissingFile
    /\ image_cache_file \in {MissingFile, MalformedFile}
    /\ pc = "get_anime_image_from_anilist"
    /\ sent_items = EmptyDict
    /\ feeds = <<>>
    /\ feed_index = 0
    /\ messages_by_feed = <<>>
    /\ announcement = <<>>
    /\ outbox = <<>>
    /\ last_fetch = "none"
    /\ fetched = {}
    /\ handed = {}
    /\ saves = 0
    /\ handed_before = {}
    /\ lost = {}
    /\ lookups = <<>>

\* one call of get_anime_image_from_anilist(title)
Resolve ==
    /\ pc = "get_anime_image_from_anilist"
    /\ Len(lookups) < MaxResolves
    /\ \E title \in Titles : \E anilist \in AniListReplies :
           LET r == get_anime_image_from_anilist(title, image_cache_file, anilist)
           IN  /\ image_cache_file' = r.file
               /\ lookups' = Append(lookups,
                                    [ title |-> title, key |-> r.key,
                                      requested |-> r.requested,
                                      reply |-> anilist,
                                      image_url |-> r.image_url ])
    /\ UNCHANGED <<config, history_file, pc, locals, announcement, cycle,
                   handed_before, lost>>

ResolveSpec == ResolveInit /\ [][Resolve]_vars

----------------------------------------------------------------------------
(* What the properties speak of *)

IsPrefix(p, s) == Len(p) <= Len(s) /\ SubSeq(s, 1, Len(p)) = p

RECURSIVE Concat(_)
Concat(seqs) == IF seqs = <<>> THEN <<>> ELSE Head(seqs) \o Concat(Tail(seqs))

\* the pieces of a log that its sleeps end
RECURSIVE Pieces(_, _)
Pieces(log, piece) ==
    IF log = <<>> THEN (IF piece = <<>> THEN <<>> ELSE <<piece>>)
    ELSE IF Head(log).call.method = "sleep"
         THEN <<piece>> \o Pieces(Tail(log), <<>>)
         ELSE Pieces(Tail(log), Append(piece, Head(log)))

HasEntries(group) == group.entries # <<>>

\* the entries of all groups, in the order the formatters take them
AllEntries(groups) == Concat([g \in 1..Len(groups) |-> groups[g].entries])

\* the pairs the history file records
Recorded == Pairs(history_file.data)

InLoop == pc \in {"check_feeds", "feeds", "save", "sleep"}

----------------------------------------------------------------------------
(* The diff against the history *)

\* C1: in a run in which the process is never stopped, a <<feed URL,
\* identifier>> pair is handed to the formatter in at most one cycle, and
\* never in a cycle that found it recorded in the history file, whatever the
\* feeds return from cycle to cycle.
NeverOfferedAgain ==
    /\ handed \cap handed_before = {}
    /\ pc \in {"feeds", "save"} => handed \cap Recorded = {}

\* a later cycle hands a new entry of a feed that has an entry recorded
NeverOfferedAgainWitness ==
    /\ pc = "save"
    /\ \E p \in handed : \E q \in handed_before \cap Recorded : p[1] = q[1]

\* C2: when the cycle has made its sends, every fetched identifier that was
\* not in sent_items[feed_url] is in that list exactly once.
UnseenMarkedOnce ==
    pc \in {"save", "sleep"} =>
        \A p \in fetched :
            /\ p[1] \in DOMAIN sent_items
            /\ Count(p[2], sent_items[p[1]]) = 1

----------------------------------------------------------------------------
(* send_grouped_messages *)

\* C3: every text send_grouped_messages passes to send_telegram_message is
\* at most MAX_MESSAGE_LENGTH characters long.
GroupedWithinLimit ==
    TELEGRAM_GROUPED_MESSAGES =>
        \A i \in 1..Len(outbox) :
            outbox[i].call.method = "send_message" =>
                Len(outbox[i].call.text) <= MAX_MESSAGE_LENGTH

\* C4: for each feed title with entries, every message sent for it begins
\* with the header, each body is a run of consecutive entry texts, the bodies
\* in order make up the entry texts in order, each once, and more than one
\* message is sent when the header and the entry texts together exceed
\* MAX_MESSAGE_LENGTH.
GroupedSplitKeepsEntries ==
    (pc = "save" /\ TELEGRAM_GROUPED_MESSAGES) =>
        LET groups == SelectSeq(messages_by_feed, HasEntries)
            pieces == Pieces(outbox, <<>>)
        IN  /\ Len(pieces) = Len(groups)
            /\ \A g \in 1..Len(groups) :
                   LET header == GroupedHeader(groups[g].feed_title)
                       n == Len(groups[g].entries)
                       blocks == [k \in 1..n |-> GroupedEntryText(groups[g].entries[k])]
                       texts == [k \in 1..Len(pieces[g]) |-> pieces[g][k].call.text]
                       bodies == [k \in 1..Len(texts) |->
                                     SubSeq(texts[k], Len(header) + 1, Len(texts[k]))]
                   IN  /\ \A k \in 1..Len(texts) :
                              /\ pieces[g][k].call.method = "send_message"
                              /\ IsPrefix(header, texts[k])
                              /\ \E i \in 1..(n + 1) : \E j \in 0..n :
                                     bodies[k] = Concat(SubSeq(blocks, i, j))
                       /\ Concat(bodies) = Concat(blocks)
                       /\ Len(header) + Len(Concat(blocks)) > MAX_MESSAGE_LENGTH
                              => Len(texts) > 1

\* three entries are sent in three messages or more
GroupedSplitKeepsEntriesWitness ==
    /\ pc = "save"
    /\ TELEGRAM_GROUPED_MESSAGES
    /\ Len(messages_by_feed) = 1
    /\ Len(messages_by_feed[1].entries) = 3
    /\ NumSends(outbox) >= 3

\* C5: a cycle that fetched no unseen identifier makes no Telegram call,
\* and every call of a cycle bears the title of a group that has entries.
NothingNewNothingSent ==
    pc \in {"save", "sleep"} =>
        /\ fetched = {} => NumSends(outbox) = 0
        /\ \A i \in 1..Len(outbox) :
               IsSend(outbox[i]) =>
                   \E g \in 1..Len(messages_by_feed) :
                       /\ messages_by_feed[g].entries # <<>>
                       /\ IsPrefix(NewContentFrom \o messages_by_feed[g].feed_title
                                       \o <<"*", "\n", "\n">>,
                                   outbox[i].call.text)
        /\ TELEGRAM_GROUPED_MESSAGES =>
               Len(Pieces(outbox, <<>>)) = Len(SelectSeq(messages_by_feed, HasEntries))

\* a later cycle fetched feeds with entries, all of them recorded
NothingNewNothingSentWitness ==
    /\ pc = "sleep"
    /\ handed_before # {}
    /\ fetched = {}
    /\ messages_by_feed # <<>>
    /\ \A g \in 1..Len(messages_by_feed) : messages_by_feed[g].entries = <<>>
    /\ outbox = <<>>

----------------------------------------------------------------------------
(* send_single_messages *)

\* C6: in send_single_messages an entry with an image is sent as a photo
\* first; a text message follows exactly when the photo call failed, and it
\* has the caption as its text and the same reply_markup, thread and chat;
\* the entry's identifier is in sent_items whatever the calls returned, and
\* in the history file once it is saved.
PhotoThenFallback ==
    (pc \in {"save", "sleep"} /\ ~TELEGRAM_GROUPED_MESSAGES) =>
        LET entries == AllEntries(messages_by_feed)
            pieces == Pieces(outbox, <<>>)
        IN  /\ Len(pieces) = Len(entries)
            /\ \A k \in 1..Len(entries) :
                   Truthy(entries[k].image_url) =>
                       /\ Len(pieces[k]) >= 1
                       /\ pieces[k][1].call.method = "send_photo"
                       /\ pieces[k][1].call.photo = entries[k].image_url
                       /\ Len(pieces[k]) = IF pieces[k][1].ok THEN 1 ELSE 2
                       /\ ~pieces[k][1].ok =>
                              /\ pieces[k][2].call.method = "send_message"
                              /\ pieces[k][2].call.text = pieces[k][1].call.text
                              /\ pieces[k][2].call.reply_markup
                                     = pieces[k][1].call.reply_markup
                              /\ pieces[k][2].call.message_thread_id
                                     = pieces[k][1].call.message_thread_id
                              /\ pieces[k][2].call.chat_id = pieces[k][1].call.chat_id
            /\ Len(entries) = Cardinality(handed)
            /\ handed \subseteq Pairs(sent_items)
            /\ pc = "sleep" => handed \subseteq Recorded

\* a photo with a button failed, the text sent in its place failed too, and
\* the entry is recorded
PhotoThenFallbackWitness ==
    /\ pc = "sleep"
    /\ ~TELEGRAM_GROUPED_MESSAGES
    /\ handed # {}
    /\ \E i \in 1..Len(outbox) :
           /\ outbox[i].call.method = "send_photo"
           /\ outbox[i].call.reply_markup # None
           /\ ~outbox[i].ok
           /\ outbox[i + 1].call.method = "send_message"
           /\ ~outbox[i + 1].ok

----------------------------------------------------------------------------
(* check_feeds and main_async *)

\* C7: a turn of the loop over the feeds in which feedparser.parse raises
\* changes nothing but the place in the feed list: sent_items, the groups,
\* the handed entries, the image cache and the history file are as they
\* were, so the feeds before keep what they gave and the feeds after are
\* checked from the state they would find without the failing feed.
FailedFeedIsSkipped ==
    [][(pc = "feeds" /\ feed_index' = feed_index + 1 /\ last_fetch' = "raises") =>
           /\ pc' = "feeds"
           /\ sent_items' = sent_items
           /\ messages_by_feed' = messages_by_feed
           /\ handed' = handed
           /\ fetched' = fetched
           /\ feeds' = feeds
           /\ files' = files
           /\ outbox' = outbox]_vars

\* a feed raised after another feed had given entries
FailedFeedIsSkippedWitness ==
    /\ pc = "feeds"
    /\ last_fetch = "raises"
    /\ feed_index = 3
    /\ handed # {}
    /\ messages_by_feed # <<>>

\* C8: from the first check_feeds on the process stays in the loop; every
\* cycle that begins reaches the end of save_sent_items, having saved once,
\* and sleeps, and after the sleep a new cycle begins, whatever the feeds,
\* AniList and the Telegram calls do.
CycleAlwaysCompletes ==
    /\ [](InLoop => [](InLoop))
    /\ (pc = "check_feeds") ~> (pc = "save")
    /\ (pc = "save") ~> (pc = "sleep" /\ saves = 1)
    /\ (pc = "sleep") ~> (pc = "check_feeds")

\* a cycle in which a photo and the text sent in its place failed has saved
\* and sleeps
CycleAlwaysCompletesWitness ==
    /\ pc = "sleep"
    /\ saves = 1
    /\ handed_before # {}
    /\ \E i \in 1..Len(outbox) :
           /\ outbox[i].call.method = "send_photo"
           /\ ~outbox[i].ok
           /\ ~outbox[i + 1].ok
           /\ image_cache_file.state = "ok"

\* C9: the history file is written once in a cycle, by the save that follows
\* the notification, with all the handed identifiers in it; a pair is
\* handed in two cycles only if the process stopped between the
\* notification and the save of the first, such a pair is not in the
\* history file until a later cycle saves it, and a pair the history file
\* records is not handed again.
PersistOncePerCycle ==
    /\ [](/\ saves <= 1
          /\ saves = 1 <=> pc = "sleep"
          /\ handed \cap handed_before \subseteq lost
          /\ pc # "sleep" => lost \cap Recorded = {}
          /\ pc \in {"feeds", "save"} => handed \cap Recorded = {})
    /\ [][history_file' # history_file =>
              /\ pc = "save"
              /\ pc' = "sleep"
              /\ feed_index > Len(feeds)
              /\ handed \subseteq Pairs(sent_items)
              /\ history_file'.data = sent_items]_vars

\* entries handed in a cycle that stopped before its save are handed again
PersistOncePerCycleWitness ==
    /\ pc = "save"
    /\ handed \cap lost # {}
    /\ handed \cap handed_before # {}
    /\ Recorded # {}

\* C10: every pair the history file records is recorded by the history file
\* after every step, under the same feed URL.
HistoryGrows ==
    [][\A u \in DOMAIN history_file.data :
           /\ u \in DOMAIN history_file'.data
           /\ \A i \in 1..Len(history_file.data[u]) :
                  InList(history_file.data[u][i], history_file'.data[u])]_vars

\* a cycle with an empty feed list has saved a history that records entries
HistoryGrowsWitness ==
    /\ pc = "sleep"
    /\ feeds = <<>>
    /\ saves = 1
    /\ Recorded # {}
    /\ handed_before # {}

----------------------------------------------------------------------------
(* The image cache *)

\* the call got a match from AniList
Matched(lookup) ==
    lookup.requested /\ ~lookup.reply.error /\ lookup.reply.media # <<>>

\* the calls before the j-th that had its cache key
EarlierCalls(j) == {i \in 1..(j - 1) : lookups[i].key = lookups[j].key}

\* C11 as stated: of two calls with titles that have the same cache key,
\* exactly one asks AniList.
OneLookupPerKey ==
    \A j \in 1..Len(lookups) : \A i \in EarlierCalls(j) :
        lookups[i].requested # lookups[j].requested

\* C11: a call asks AniList exactly when no earlier call with the same cache
\* key got a match; after a call that got one, the calls with that key
\* return its image without asking, and after calls that got none, the
\* next call with that key asks again.
LookupSavedAfterMatch ==
    \A j \in 1..Len(lookups) :
        /\ lookups[j].requested <=> \A i \in EarlierCalls(j) : ~Matched(lookups[i])
        /\ \A i \in EarlierCalls(j) :
               Matched(lookups[i]) =>
                   /\ ~lookups[j].requested
                   /\ lookups[j].image_url = lookups[i].reply.media[1]

\* a second title with the key of the first is served from the cache, while
\* AniList would have replied with another image
LookupSavedAfterMatchWitness ==
    /\ Len(lookups) = 2
    /\ lookups[1].title = TitleSpaces
    /\ lookups[2].title = TitleYear
    /\ Matched(lookups[1])
    /\ ~lookups[2].requested
    /\ lookups[2].reply = AniListOther
    /\ lookups[2].image_url = AniListMatch.media[1]

\* C12: every key of the image cache file is the cache key of a call that
\* got a match, with the first image of that match as its value; a call
\* that asks AniList and gets an error or no match returns None and leaves
\* the file as it was, and the next call with that key asks AniList again.
OnlyMatchesCached ==
    /\ [](/\ \A key \in DOMAIN image_cache_file.data :
                 \E i \in 1..Len(lookups) :
                     /\ lookups[i].key = key
                     /\ Matched(lookups[i])
                     /\ image_cache_file.data[key] = lookups[i].reply.media[1]
          /\ \A j \in 1..Len(lookups) :
                 /\ (lookups[j].requested /\ ~Matched(lookups[j]))
                        => lookups[j].image_url = None
                 /\ (\A i \in EarlierCalls(j) : ~Matched(lookups[i]))
                        => lookups[j].requested)
    /\ [][LET call == lookups'[Len(lookups')]
          IN  /\ Len(lookups') = Len(lookups) + 1
              /\ ~Matched(call) => image_cache_file' = image_cache_file
              /\ Matched(call) =>
                     /\ image_cache_file'.state = "ok"
                     /\ DOMAIN image_cache_file'.data
                            = DOMAIN image_cache_file.data \cup {call.key}
                     /\ \A key \in DOMAIN image_cache_file.data :
                            image_cache_file'.data[key] = image_cache_file.data[key]
         ]_vars

\* a lookup failed, the next one for the same key asked again and got a
\* match, and only that one is in the cache
OnlyMatchesCachedWitness ==
    /\ Len(lookups) = 2
    /\ lookups[1].key = lookups[2].key
    /\ lookups[1].reply = AniListError
    /\ lookups[2].requested
    /\ Matched(lookups[2])
    /\ image_cache_file = JsonFile(lookups[2].key :> lookups[2].reply.media[1])

----------------------------------------------------------------------------
(* clean_title *)

NoSpaceRuns(s) ==
    /\ s # <<>> => ~IsSpace(s[1]) /\ ~IsSpace(s[Len(s)])
    /\ \A k \in 1..Len(s) : IsSpace(s[k]) => s[k] = " " /\ ~IsSpace(s[k + 1])

\* C17: the cache key of a title is the title without its bracketed and
\* parenthesized segments, then without a trailing "- N", then without a
\* trailing "Episode N" in any case, with its whitespace runs collapsed and
\* trimmed: "[SubGroup] Show Name - 03", "Show Name Episode 5" and
\* "  Show   Name  " have the key "Show Name".
TitlesNormalize ==
    \A i \in 1..Len(lookups) :
        /\ lookups[i].title \in {TitleSubGroup, TitleEpisode, TitleSpaces, TitleYear}
               => lookups[i].key = ShowName
        /\ lookups[i].title = TitleBoth => lookups[i].key = ShowNameDash
        /\ lookups[i].title = TitleTags => lookups[i].key = <<>>
        /\ NoSpaceRuns(lookups[i].key)
        /\ \A j \in 1..Len(lookups) :
               lookups[i].title = lookups[j].title => lookups[i].key = lookups[j].key

\* two of the titles share the cache entry made for the first
TitlesNormalizeWitness ==
    /\ Len(lookups) = 2
    /\ lookups[1].title = TitleSubGroup
    /\ lookups[2].title = TitleEpisode
    /\ lookups[1].key = ShowName
    /\ Matched(lookups[1])
    /\ ~lookups[2].requested

----------------------------------------------------------------------------
(* main_async before the loop *)

\* the token and the chat are set, and the thread, when set, is an integer
EnvironmentIsValid ==
    /\ TELEGRAM_BOT_TOKEN \notin {None, <<>>}
    /\ TELEGRAM_CHAT_ID \notin {None, <<>>}
    /\ TELEGRAM_FORUM_ID \in {None, <<>>} \/ IsInt(TELEGRAM_FORUM_ID)

\* no call was made on the bot, no feed was fetched, the history was not loaded
NothingDone ==
    /\ announcement = <<>>
    /\ outbox = <<>>
    /\ sent_items = EmptyDict
    /\ feeds = <<>>
    /\ messages_by_feed = <<>>
    /\ fetched = {}
    /\ handed = {}
    /\ handed_before = {}
    /\ last_fetch = "none"
    /\ saves = 0

\* C13: with an environment that is not valid main_async ends, by return or
\* by the ValueError, having made no call on the bot, fetched no feed and
\* neither loaded nor saved the history, and nothing happens after; with a
\* valid one the startup announcement is sent once, before the first
\* check_feeds, which is entered whether the announcement failed or not.
ValidationGuardsLoop ==
    /\ [](/\ pc \in {"returned", "raised"} => ~EnvironmentIsValid /\ NothingDone
          /\ (pc = "startup" \/ InLoop) => EnvironmentIsValid
          /\ pc \in {"main_async", "startup"} => NothingDone
          /\ announcement # <<>> =>
                 /\ Len(announcement) = 1
                 /\ announcement[1].call.method = "send_message"
                 /\ announcement[1].call.text = StartedText
                 /\ pc = "check_feeds"
                 /\ outbox = <<>> /\ saves = 0 /\ handed_before = {})
    /\ [][/\ pc \notin {"returned", "raised"}
          /\ pc = "main_async" =>
                 /\ files' = files
                 /\ pc' = "startup" <=> EnvironmentIsValid
          /\ pc = "startup" =>
                 /\ pc' = "check_feeds"
                 /\ Len(announcement') = 1
                 /\ files' = files]_vars

\* the announcement failed and check_feeds is entered
ValidationGuardsLoopWitness ==
    /\ pc = "check_feeds"
    /\ announcement # <<>>
    /\ ~announcement[1].ok
    /\ TELEGRAM_FORUM_ID = <<"7">>

----------------------------------------------------------------------------
(* load_sent_items *)

\* C14: load_sent_items raises nothing to check_feeds: with a history file
\* that is missing or holds no JSON the process does not end, the cycle
\* starts from the empty dictionary, so that what sent_items holds is what
\* the cycle handed to the formatter, and save_sent_items writes it to the
\* history file.
LoadNeverFails ==
    /\ pc # "raised"
    /\ (pc \in {"feeds", "save"} /\ history_file.state # "ok") =>
           Pairs(sent_items) = handed
    /\ pc = "sleep" => history_file = JsonFile(sent_items)

----------------------------------------------------------------------------
(* The texts of send_single_messages *)

IsSuffix(p, s) ==
    Len(p) <= Len(s) /\ SubSeq(s, Len(s) - Len(p) + 1, Len(s)) = p

\* the text ends with the link on a line of its own
EndsWithLink(text, entry) == IsSuffix(<<"\n">> \o entry.link, text)

\* C15: every text send_single_messages passes to send_telegram_message,
\* the text sent after a failed photo included, is at most
\* MAX_MESSAGE_LENGTH characters long.
SingleWithinLimit ==
    ~TELEGRAM_GROUPED_MESSAGES =>
        \A i \in 1..Len(outbox) :
            outbox[i].call.method = "send_message" =>
                Len(outbox[i].call.text) <= MAX_MESSAGE_LENGTH

\* C16 as stated: in send_single_messages the text of an entry ends with
\* its link exactly when the entry has no image, and an entry with an image
\* is sent as a photo with that text as caption.
LinkOnlyWithoutImage ==
    (pc \in {"save", "sleep"} /\ ~TELEGRAM_GROUPED_MESSAGES) =>
        LET entries == AllEntries(messages_by_feed)
            pieces == Pieces(outbox, <<>>)
        IN  \A k \in 1..Len(entries) :
                /\ pieces[k][1].call.method = "send_photo"
                       <=> Truthy(entries[k].image_url)
                /\ EndsWithLink(pieces[k][1].call.text, entries[k])
                       <=> ~Truthy(entries[k].image_url)

\* C16: in send_single_messages the text of an entry ends with its link
\* exactly when TELEGRAM_MESSAGE_LINKS_BUTTON is off, and the link is the
\* button of the message exactly when it is on, whether the entry has an
\* image or not; an entry with an image is sent as a photo of that image
\* with the text as caption, an entry without as a text message.
LinkFollowsButtonFlag ==
    (pc \in {"save", "sleep"} /\ ~TELEGRAM_GROUPED_MESSAGES) =>
        LET entries == AllEntries(messages_by_feed)
            pieces == Pieces(outbox, <<>>)
        IN  /\ Len(pieces) = Len(entries)
            /\ \A k \in 1..Len(entries) :
                   LET first == pieces[k][1].call
                   IN  /\ first.method = "send_photo" <=> Truthy(entries[k].image_url)
                       /\ first.method = "send_message" <=> ~Truthy(entries[k].image_url)
                       /\ first.method = "send_photo" => first.photo = entries[k].image_url
                       /\ EndsWithLink(first.text, entries[k])
                              <=> ~TELEGRAM_MESSAGE_LINKS_BUTTON
                       /\ first.reply_markup =
                              IF TELEGRAM_MESSAGE_LINKS_BUTTON
                              THEN <<OpenLink, entries[k].link>>
                              ELSE None

\* a photo whose caption ends with the link
LinkFollowsButtonFlagWitness ==
    /\ pc = "save"
    /\ ~TELEGRAM_GROUPED_MESSAGES
    /\ ~TELEGRAM_MESSAGE_LINKS_BUTTON
    /\ outbox # <<>>
    /\ outbox[1].call.method = "send_photo"
    /\ outbox[1].ok
    /\ EndsWithLink(outbox[1].call.text, messages_by_feed[1].entries[1])

\* C19: every text send_grouped_messages passes to send_telegram_message
\* has an entry text after the header.
GroupedBodyNeverEmpty ==
    TELEGRAM_GROUPED_MESSAGES =>
        \A i \in 1..Len(outbox) : \A g \in 1..Len(messages_by_feed) :
            outbox[i].call.method = "send_message" =>
                outbox[i].call.text # GroupedHeader(messages_by_feed[g].feed_title)

----------------------------------------------------------------------------
(* The pacing of the notifications *)

IsSleep(ev) == ev.call.method = "sleep"

\* the feed title of each entry of AllEntries(groups)
AllTitles(groups) ==
    Concat([g \in 1..Len(groups) |->
                [e \in 1..Len(groups[g].entries) |-> groups[g].feed_title]])

\* C18: every sleep of a notification lasts one second and the notification
\* ends with one.  send_grouped_messages sleeps once for each feed title
\* that has entries, after the last message of that title: between two
\* sleeps lie all the messages of one title, more than one when its entries
\* were split, and the messages of the next title come after the sleep.
\* send_single_messages sleeps once for each entry, after its photo or text,
\* and after the text that follows a failed photo.
PacingDelays ==
    pc = "save" =>
        LET groups == SelectSeq(messages_by_feed, HasEntries)
            entries == AllEntries(messages_by_feed)
            pieces == Pieces(outbox, <<>>)
            sleeps == SelectSeq(outbox, IsSleep)
        IN  /\ \A i \in 1..Len(sleeps) : sleeps[i].call.secs = 1
            /\ outbox # <<>> => IsSleep(outbox[Len(outbox)])
            /\ \A k \in 1..Len(pieces) : pieces[k] # <<>>
            /\ TELEGRAM_GROUPED_MESSAGES =>
                   /\ Len(sleeps) = Len(groups)
                   /\ \A g \in 1..Len(groups) :
                          /\ Len(pieces[g]) =
                                 Len(GroupedTexts(GroupedHeader(groups[g].feed_title),
                                                  <<>>, groups[g].entries))
                          /\ \A k \in 1..Len(pieces[g]) :
                                 IsPrefix(GroupedHeader(groups[g].feed_title),
                                          pieces[g][k].call.text)
            /\ ~TELEGRAM_GROUPED_MESSAGES =>
                   /\ Len(sleeps) = Len(entries)
                   /\ \A k \in 1..Len(entries) :
                          LET piece == pieces[k]
                              last == piece[Len(piece)]
                          IN  /\ Len(piece) \in {1, 2}
                              /\ Len(piece) = 2 <=>
                                     (piece[1].call.method = "send_photo" /\ ~piece[1].ok)
                              /\ Len(piece) = 2 => last.call.method = "send_message"
                              /\ last.call.text =
                                     SingleText(AllTitles(messages_by_feed)[k], entries[k])

\* a title whose entries were split is followed by one sleep, then by the
\* message of the next title and its sleep
PacingDelaysWitness ==
    /\ pc = "save"
    /\ TELEGRAM_GROUPED_MESSAGES
    /\ Len(outbox) = 5
    /\ ~IsSleep(outbox[1])
    /\ ~IsSleep(outbox[2])
    /\ IsSleep(outbox[3])
    /\ ~IsSleep(outbox[4])
    /\ IsSleep(outbox[5])
    /\ outbox[4].call.text # outbox[2].call.text

----------------------------------------------------------------------------
(* Lines 301 and 302 *)

\* the list the history file has for a feed URL
Loaded(feed_url) ==
    LET old == load_sent_items(history_file)
    IN  IF feed_url \in DOMAIN old THEN old[feed_url] ELSE <<>>

\* the <<feed URL, position>> of the identifiers appended in this cycle
Appended ==
    UNION { {<<u, i>> : i \in (Len(Loaded(u)) + 1)..Len(sent_items[u])} :
                u \in DOMAIN sent_items }

\* C20: while check_feeds runs over the feeds and when it has ended,
\* whatever feeds raised and whatever image lookups failed, sent_items is
\* the loaded history with identifiers appended, these are as many as the
\* entries in messages_by_feed, each is new to its feed and appended once,
\* and they are the identifiers of the entries handed to the notification.
MarkedIffAccumulated ==
    pc \in {"feeds", "save"} =>
        /\ DOMAIN load_sent_items(history_file) \subseteq DOMAIN sent_items
        /\ \A u \in DOMAIN sent_items : IsPrefix(Loaded(u), sent_items[u])
        /\ Cardinality(Appended) = Len(AllEntries(messages_by_feed))
        /\ \A p \in Appended :
               Count(sent_items[p[1]][p[2]], sent_items[p[1]]) = 1
        /\ {<<p[1], sent_items[p[1]][p[2]]>> : p \in Appended} = handed

\* the loop has ended after a feed that raised, with an entry whose image
\* lookup failed appended to a history that was not empty
MarkedIffAccumulatedWitness ==
    /\ pc = "feeds"
    /\ feed_index > Len(feeds)
    /\ last_fetch = "raises"
    /\ Pairs(load_sent_items(history_file)) # {}
    /\ Appended # {}
    /\ \E k \in 1..Len(AllEntries(messages_by_feed)) :
           AllEntries(messages_by_feed)[k].image_url = None

====
